---- MODULE Spec2Model ----
(***************************************************************************)
(* Model of the Generation Client of Chronicles                            *)
(* (src/services/geminiService.ts): credential and model configuration,    *)
(* the retrying invocation wrapper withRetry, the response sanitizer       *)
(* cleanJson, and the five generation calls.                               *)
(*                                                                         *)
(* JavaScript strings are modelled as sequences of one-character strings,  *)
(* so that replace, trim, indexOf, substring, includes, startsWith and     *)
(* JSON.parse are computed on the characters as the code computes them.    *)
(***************************************************************************)
EXTENDS Integers, Sequences, FiniteSets, TLC

\* ------------------------------------------------------------------ bounds
\* Number of callers that may hold a generation call.
MaxCalls == 2

\* ------------------------------------------------------- program constants
MAX_RETRIES == 3
INITIAL_BACKOFF_MS == 2000
\* Math.random() * 1000: the jitter is in [0, JITTER_RANGE)
JITTER_RANGE == 1000

\* ----------------------------------------------------- JavaScript strings
\* A character is one element: a one-character string, or, for a character
\* that cannot be written in a string here, its code point written "U+XXXX".
\* what String.prototype.trim removes: the WhiteSpace and LineTerminator
\* characters of ECMAScript (TAB, VT, FF, SP, NBSP, ZWNBSP, the other space
\* separators, LF, CR, LS, PS)
Whitespace ==
  {"\t", "U+000B", "\f", " ", "U+00A0", "U+FEFF",
   "U+1680", "U+2000", "U+2001", "U+2002", "U+2003", "U+2004", "U+2005",
   "U+2006", "U+2007", "U+2008", "U+2009", "U+200A", "U+202F", "U+205F",
   "U+3000",
   "\n", "\r", "U+2028", "U+2029"}

\* s.startsWith(p)
StartsWith(s, p) ==
  /\ Len(p) <= Len(s)
  /\ SubSeq(s, 1, Len(p)) = p

\* does p occur in s at the 1-based position i
MatchAt(s, p, i) ==
  /\ i + Len(p) - 1 <= Len(s)
  /\ SubSeq(s, i, i + Len(p) - 1) = p

\* s.includes(p)
Includes(s, p) == \E i \in 1..(Len(s) + 1) : MatchAt(s, p, i)

RECURSIVE ReplaceFrom(_, _, _)
ReplaceFrom(s, p, i) ==
  IF i > Len(s) THEN <<>>
  ELSE IF MatchAt(s, p, i) THEN ReplaceFrom(s, p, i + Len(p))
  ELSE <<s[i]>> \o ReplaceFrom(s, p, i + 1)

\* s.replace(/p/g, ''): every leftmost non-overlapping occurrence is removed
ReplaceAll(s, p) == ReplaceFrom(s, p, 1)

\* s.trim()
Trim(s) ==
  LET keep == {i \in 1..Len(s) : s[i] \notin Whitespace}
  IN IF keep = {} THEN <<>>
     ELSE SubSeq(s, CHOOSE i \in keep : \A j \in keep : i <= j,
                    CHOOSE i \in keep : \A j \in keep : i >= j)

\* s.indexOf(ch): 0-based, -1 when absent
IndexOf(s, ch) ==
  LET at == {i \in 1..Len(s) : s[i] = ch}
  IN IF at = {} THEN -1 ELSE (CHOOSE i \in at : \A j \in at : i <= j) - 1

\* s.lastIndexOf(ch): 0-based, -1 when absent
LastIndexOf(s, ch) ==
  LET at == {i \in 1..Len(s) : s[i] = ch}
  IN IF at = {} THEN -1 ELSE (CHOOSE i \in at : \A j \in at : i >= j) - 1

\* s.substring(a, b) for 0 <= a <= b <= s.length
Substring(s, a, b) == SubSeq(s, a + 1, b)

\* The backquote character (U+0060) cannot be written inside a TLA+ string;
\* it is written "BQ" and, like every other character, is one element.
BQ == "BQ"
\* the pattern of the first replace: three backquotes followed by json
FenceJson == <<BQ, BQ, BQ, "j", "s", "o", "n">>
\* the pattern of the second replace: three backquotes
Fence == <<BQ, BQ, BQ>>

\* cleanJson slicing up to, not including, the last brace
cleanJsonExclusive(text) ==
  LET clean == Trim(ReplaceAll(ReplaceAll(text, FenceJson), Fence))
      firstBrace == IndexOf(clean, "{")
      lastBrace == LastIndexOf(clean, "}")
  IN IF firstBrace # -1 /\ lastBrace # -1 /\ lastBrace > firstBrace
     THEN Substring(clean, firstBrace, lastBrace)
     ELSE clean

\* cleanJson(text)
cleanJson(text) ==
  LET clean == Trim(ReplaceAll(ReplaceAll(text, FenceJson), Fence))
      firstBrace == IndexOf(clean, "{")
      lastBrace == LastIndexOf(clean, "}")
  IN IF firstBrace # -1 /\ lastBrace # -1 /\ lastBrace > firstBrace
     THEN Substring(clean, firstBrace, lastBrace + 1)
     ELSE clean

\* ---------------------------------------------------------------- JSON.parse
\* JSON.parse on a character sequence, by recursive descent over the JSON
\* grammar (objects, arrays, strings with escapes, numbers with fraction and
\* exponent, true, false, null).  The result is a summary of the parsed
\* value: its kind, the length of an array, and for an object the kind and
\* length of its member "options" (the last one, when the key is repeated).
\* A text that is no JSON gives the message and the position of the
\* SyntaxError, which are those of the V8 engine (Chrome, Node.js).
Digit == {"0", "1", "2", "3", "4", "5", "6", "7", "8", "9"}
HexDigit == Digit \cup {"a", "b", "c", "d", "e", "f", "A", "B", "C", "D", "E", "F"}
EscapeChar == {"\"", "\\", "/", "b", "f", "n", "r", "t"}
OptionsKey == <<"o", "p", "t", "i", "o", "n", "s">>
\* the white space of the JSON grammar
JsonWhitespace == {" ", "\t", "\n", "\r"}

\* the characters U+0020 to U+007E in the order of their code points
Ascii ==
  <<" ", "!", "\"", "#", "$", "%", "&", "'", "(", ")", "*", "+", ",", "-",
    ".", "/", "0", "1", "2", "3", "4", "5", "6", "7", "8", "9", ":", ";", "<",
    "=", ">", "?", "@", "A", "B", "C", "D", "E", "F", "G", "H", "I", "J", "K",
    "L", "M", "N", "O", "P", "Q", "R", "S", "T", "U", "V", "W", "X", "Y", "Z",
    "[", "\\", "]", "^", "_", BQ, "a", "b", "c", "d", "e", "f", "g", "h", "i",
    "j", "k", "l", "m", "n", "o", "p", "q", "r", "s", "t", "u", "v", "w", "x",
    "y", "z", "{", "|", "}", "~">>

\* the value of a hexadecimal digit
HexValue(c) ==
  LET upper == <<"0", "1", "2", "3", "4", "5", "6", "7", "8", "9",
                 "A", "B", "C", "D", "E", "F">>
      lower == <<"0", "1", "2", "3", "4", "5", "6", "7", "8", "9",
                 "a", "b", "c", "d", "e", "f">>
  IN (CHOOSE k \in 1..16 : upper[k] = c \/ lower[k] = c) - 1

\* the character of a code unit (String.fromCharCode)
CharOfCode(n) ==
  LET hex == <<"0", "1", "2", "3", "4", "5", "6", "7", "8", "9",
               "A", "B", "C", "D", "E", "F">>
  IN IF n = 9 THEN "\t"
     ELSE IF n = 10 THEN "\n"
     ELSE IF n = 12 THEN "\f"
     ELSE IF n = 13 THEN "\r"
     ELSE IF n >= 32 /\ n <= 126 THEN Ascii[n - 31]
     ELSE "U+" \o hex[(n \div 4096) + 1] \o hex[((n \div 256) % 16) + 1]
               \o hex[((n \div 16) % 16) + 1] \o hex[(n % 16) + 1]

\* the characters below U+0020, which a JSON string may not hold unescaped
ControlCharacter == {CharOfCode(n) : n \in 0..31}

\* the character an escape sequence \c stands for
Unescape(c) ==
  CASE c = "b" -> CharOfCode(8)
    [] c = "f" -> "\f"
    [] c = "n" -> "\n"
    [] c = "r" -> "\r"
    [] c = "t" -> "\t"
    [] OTHER -> c

\* String(n) for an integer n: its decimal digits
RECURSIVE NumberToString(_)
NumberToString(n) ==
  IF n < 0 THEN <<"-">> \o NumberToString(0 - n)
  ELSE IF n < 10 THEN <<Ascii[n + 17]>>
  ELSE NumberToString(n \div 10) \o <<Ascii[(n % 10) + 17]>>

\* JSON.parse failing with a message template at a 0-based position of the
\* text
ParseFail(template, pos) ==
  [ok |-> FALSE, next |-> 0, kind |-> "error", len |-> 0,
   optKind |-> "absent", optLen |-> 0, value |-> <<>>,
   template |-> template, pos |-> pos]

Parsed(next, kind, len, optKind, optLen) ==
  [ok |-> TRUE, next |-> next, kind |-> kind, len |-> len,
   optKind |-> optKind, optLen |-> optLen, value |-> <<>>,
   template |-> "none", pos |-> 0]

RECURSIVE SkipWs(_, _)
SkipWs(s, i) ==
  IF i <= Len(s) /\ s[i] \in JsonWhitespace THEN SkipWs(s, i + 1) ELSE i

RECURSIVE SkipDigits(_, _)
SkipDigits(s, i) ==
  IF i <= Len(s) /\ s[i] \in Digit THEN SkipDigits(s, i + 1) ELSE i

\* the string whose body starts at i, acc being the characters decoded so
\* far: next is the position after the closing quote and value the decoded
\* characters
RECURSIVE StringEnd(_, _, _)
StringEnd(s, i, acc) ==
  IF i > Len(s) THEN ParseFail("UnterminatedString", Len(s))
  ELSE IF s[i] = "\"" THEN
    [Parsed(i + 1, "string", 0, "absent", 0) EXCEPT !.value = acc]
  ELSE IF s[i] = "\\" THEN
    \* the text ends after the backslash: the end of the input is reported
    IF i + 1 > Len(s) THEN ParseFail("Unexpected", Len(s))
    ELSE IF s[i + 1] \in EscapeChar
      THEN StringEnd(s, i + 2, Append(acc, Unescape(s[i + 1])))
    ELSE IF s[i + 1] = "u" THEN
      LET bad == {k \in 2..5 : i + k > Len(s) \/ s[i + k] \notin HexDigit}
          first == CHOOSE k \in bad : \A m \in bad : k <= m
          code == HexValue(s[i + 2]) * 4096 + HexValue(s[i + 3]) * 256
                  + HexValue(s[i + 4]) * 16 + HexValue(s[i + 5])
      IN IF bad # {} THEN ParseFail("BadUnicodeEscape", i + first - 1)
         ELSE StringEnd(s, i + 6, Append(acc, CharOfCode(code)))
    ELSE ParseFail("BadEscapedCharacter", i)
  ELSE IF s[i] \in ControlCharacter THEN ParseFail("BadControlCharacter", i - 1)
  ELSE StringEnd(s, i + 1, Append(acc, s[i]))

\* a number starting at i with a minus sign or a digit: next is the position
\* after it.  d is the first character after the sign, k the position after
\* the integer part, f after the fraction, g the first position where the
\* digits of the exponent may start, x the position after them.
NumberEnd(s, i) ==
  LET d == IF s[i] = "-" THEN i + 1 ELSE i
      Exponent(f) ==
        LET g == IF f + 1 <= Len(s) /\ s[f + 1] \in {"-", "+"}
                 THEN f + 2
                 ELSE f + 1
            ExponentDigits(x) ==
              IF x = g THEN ParseFail("ExponentPartMissingNumber", g - 1)
              ELSE Parsed(x, "number", 0, "absent", 0)
        IN IF f <= Len(s) /\ s[f] \in {"e", "E"}
           THEN ExponentDigits(SkipDigits(s, g))
           ELSE Parsed(f, "number", 0, "absent", 0)
      Fraction(k) ==
        LET FractionDigits(f) ==
              IF f = k + 1 THEN ParseFail("UnterminatedFractionalNumber", k)
              ELSE Exponent(f)
        IN IF k <= Len(s) /\ s[k] = "."
           THEN FractionDigits(SkipDigits(s, k + 1))
           ELSE Exponent(k)
      IntegerDigits(k) ==
        IF k = d THEN ParseFail("NoNumberAfterMinusSign", d - 1)
        ELSE Fraction(k)
  IN IF d <= Len(s) /\ s[d] = "0" THEN
       IF d + 1 <= Len(s) /\ s[d + 1] \in Digit
       THEN ParseFail("Unexpected", d)
       ELSE Fraction(d + 1)
     ELSE IntegerDigits(SkipDigits(s, d))

\* one of the words true, false, null starting at i, whose first character
\* is there
LiteralEnd(s, i, word, kind) ==
  LET bad == {k \in 2..Len(word) : i + k - 1 > Len(s) \/ s[i + k - 1] # word[k]}
      first == CHOOSE k \in bad : \A m \in bad : k <= m
  IN IF bad = {} THEN Parsed(i + Len(word), kind, 0, "absent", 0)
     ELSE ParseFail("Unexpected", i + first - 2)

RECURSIVE ParseValue(_, _)
RECURSIVE ParseElements(_, _, _)
RECURSIVE ParseMembers(_, _, _, _, _)

\* the elements of an array from position i on, n elements parsed so far
ParseElements(s, i, n) ==
  LET AfterElement(v) ==
        LET k == SkipWs(s, v.next)
        IN IF ~v.ok THEN v
           ELSE IF k <= Len(s) /\ s[k] = ","
             THEN ParseElements(s, k + 1, n + 1)
           ELSE IF k <= Len(s) /\ s[k] = "]"
             THEN Parsed(k + 1, "array", n + 1, "absent", 0)
           ELSE ParseFail("ExpectedCommaOrRBrack", k - 1)
  IN AfterElement(ParseValue(s, i))

\* the members of an object from position i on; optKind/optLen describe the
\* member "options" seen so far, expected is the failure when no key starts
\* here.  A missing colon has a message of its own after the first property
\* name only; after a later one it is reported as an unexpected token.
ParseMembers(s, i, optKind, optLen, expected) ==
  LET q == SkipWs(s, i)
      AfterValue(key, v) ==
        LET k == SkipWs(s, v.next)
            isOptions == key.value = OptionsKey
            oKind == IF isOptions THEN v.kind ELSE optKind
            oLen == IF isOptions THEN v.len ELSE optLen
        IN IF ~v.ok THEN v
           ELSE IF k <= Len(s) /\ s[k] = ","
             THEN ParseMembers(s, k + 1, oKind, oLen,
                               "ExpectedDoubleQuotedPropertyName")
           ELSE IF k <= Len(s) /\ s[k] = "}"
             THEN Parsed(k + 1, "object", 0, oKind, oLen)
           ELSE ParseFail("ExpectedCommaOrRBrace", k - 1)
      AfterKey(key) ==
        LET c == SkipWs(s, key.next)
        IN IF ~key.ok THEN key
           ELSE IF c > Len(s) \/ s[c] # ":"
             THEN IF expected = "ExpectedPropNameOrRBrace"
                  THEN ParseFail("ExpectedColonAfterPropertyName", c - 1)
                  ELSE ParseFail("Unexpected", c - 1)
           ELSE AfterValue(key, ParseValue(s, c + 1))
  IN IF q > Len(s) \/ s[q] # "\"" THEN ParseFail(expected, q - 1)
     ELSE AfterKey(StringEnd(s, q + 1, <<>>))

ParseValue(s, i) ==
  LET j == SkipWs(s, i)
      a == SkipWs(s, j + 1)
  IN IF j > Len(s) THEN ParseFail("Unexpected", Len(s))
     ELSE IF s[j] = "{" THEN
       IF a <= Len(s) /\ s[a] = "}"
       THEN Parsed(a + 1, "object", 0, "absent", 0)
       ELSE ParseMembers(s, j + 1, "absent", 0, "ExpectedPropNameOrRBrace")
     ELSE IF s[j] = "[" THEN
       IF a <= Len(s) /\ s[a] = "]"
       THEN Parsed(a + 1, "array", 0, "absent", 0)
       ELSE ParseElements(s, j + 1, 0)
     ELSE IF s[j] = "\"" THEN StringEnd(s, j + 1, <<>>)
     ELSE IF s[j] \in Digit \cup {"-"} THEN NumberEnd(s, j)
     ELSE IF s[j] = "t" THEN LiteralEnd(s, j, <<"t", "r", "u", "e">>, "boolean")
     ELSE IF s[j] = "f"
       THEN LiteralEnd(s, j, <<"f", "a", "l", "s", "e">>, "boolean")
     ELSE IF s[j] = "n" THEN LiteralEnd(s, j, <<"n", "u", "l", "l">>, "null")
     ELSE ParseFail("Unexpected", j - 1)

\* JSON.parse(s): the whole text must be one value; a result that is not ok
\* stands for the SyntaxError JSON.parse throws
JSONParse(s) ==
  LET AfterValue(v) ==
        LET k == SkipWs(s, v.next)
        IN IF ~v.ok THEN v
           ELSE IF k <= Len(s)
             THEN ParseFail("UnexpectedNonWhiteSpaceCharacter", k - 1)
           ELSE v
  IN AfterValue(ParseValue(s, 1))

\* the text of a message of JSON.parse that ends with a position
PositionMessage(template) ==
  CASE template = "UnterminatedString" ->
      \* Unterminated string in JSON at position
      <<"U", "n", "t", "e", "r", "m", "i", "n", "a", "t", "e", "d", " ", "s",
        "t", "r", "i", "n", "g", " ", "i", "n", " ", "J", "S", "O", "N", " ",
        "a", "t", " ", "p", "o", "s", "i", "t", "i", "o", "n", " ">>
    [] template = "BadControlCharacter" ->
      \* Bad control character in string literal in JSON at position
      <<"B", "a", "d", " ", "c", "o", "n", "t", "r", "o", "l", " ", "c", "h",
        "a", "r", "a", "c", "t", "e", "r", " ", "i", "n", " ", "s", "t", "r",
        "i", "n", "g", " ", "l", "i", "t", "e", "r", "a", "l", " ", "i", "n",
        " ", "J", "S", "O", "N", " ", "a", "t", " ", "p", "o", "s", "i", "t",
        "i", "o", "n", " ">>
    [] template = "BadEscapedCharacter" ->
      \* Bad escaped character in JSON at position
      <<"B", "a", "d", " ", "e", "s", "c", "a", "p", "e", "d", " ", "c", "h",
        "a", "r", "a", "c", "t", "e", "r", " ", "i", "n", " ", "J", "S", "O",
        "N", " ", "a", "t", " ", "p", "o", "s", "i", "t", "i", "o", "n", " ">>
    [] template = "BadUnicodeEscape" ->
      \* Bad Unicode escape in JSON at position
      <<"B", "a", "d", " ", "U", "n", "i", "c", "o", "d", "e", " ", "e", "s",
        "c", "a", "p", "e", " ", "i", "n", " ", "J", "S", "O", "N", " ", "a",
        "t", " ", "p", "o", "s", "i", "t", "i", "o", "n", " ">>
    [] template = "NoNumberAfterMinusSign" ->
      \* No number after minus sign in JSON at position
      <<"N", "o", " ", "n", "u", "m", "b", "e", "r", " ", "a", "f", "t", "e",
        "r", " ", "m", "i", "n", "u", "s", " ", "s", "i", "g", "n", " ", "i",
        "n", " ", "J", "S", "O", "N", " ", "a", "t", " ", "p", "o", "s", "i",
        "t", "i", "o", "n", " ">>
    [] template = "UnterminatedFractionalNumber" ->
      \* Unterminated fractional number in JSON at position
      <<"U", "n", "t", "e", "r", "m", "i", "n", "a", "t", "e", "d", " ", "f",
        "r", "a", "c", "t", "i", "o", "n", "a", "l", " ", "n", "u", "m", "b",
        "e", "r", " ", "i", "n", " ", "J", "S", "O", "N", " ", "a", "t", " ",
        "p", "o", "s", "i", "t", "i", "o", "n", " ">>
    [] template = "ExponentPartMissingNumber" ->
      \* Exponent part is missing a number in JSON at position
      <<"E", "x", "p", "o", "n", "e", "n", "t", " ", "p", "a", "r", "t", " ",
        "i", "s", " ", "m", "i", "s", "s", "i", "n", "g", " ", "a", " ", "n",
        "u", "m", "b", "e", "r", " ", "i", "n", " ", "J", "S", "O", "N", " ",
        "a", "t", " ", "p", "o", "s", "i", "t", "i", "o", "n", " ">>
    [] template = "ExpectedPropNameOrRBrace" ->
      \* Expected property name or '}' in JSON at position
      <<"E", "x", "p", "e", "c", "t", "e", "d", " ", "p", "r", "o", "p", "e",
        "r", "t", "y", " ", "n", "a", "m", "e", " ", "o", "r", " ", "'", "}",
        "'", " ", "i", "n", " ", "J", "S", "O", "N", " ", "a", "t", " ", "p",
        "o", "s", "i", "t", "i", "o", "n", " ">>
    [] template = "ExpectedDoubleQuotedPropertyName" ->
      \* Expected double-quoted property name in JSON at position
      <<"E", "x", "p", "e", "c", "t", "e", "d", " ", "d", "o", "u", "b", "l",
        "e", "-", "q", "u", "o", "t", "e", "d", " ", "p", "r", "o", "p", "e",
        "r", "t", "y", " ", "n", "a", "m", "e", " ", "i", "n", " ", "J", "S",
        "O", "N", " ", "a", "t", " ", "p", "o", "s", "i", "t", "i", "o", "n",
        " ">>
    [] template = "ExpectedColonAfterPropertyName" ->
      \* Expected ':' after property name in JSON at position
      <<"E", "x", "p", "e", "c", "t", "e", "d", " ", "'", ":", "'", " ", "a",
        "f", "t", "e", "r", " ", "p", "r", "o", "p", "e", "r", "t", "y", " ",
        "n", "a", "m", "e", " ", "i", "n", " ", "J", "S", "O", "N", " ", "a",
        "t", " ", "p", "o", "s", "i", "t", "i", "o", "n", " ">>
    [] template = "ExpectedCommaOrRBrace" ->
      \* Expected ',' or '}' after property value in JSON at position
      <<"E", "x", "p", "e", "c", "t", "e", "d", " ", "'", ",", "'", " ", "o",
        "r", " ", "'", "}", "'", " ", "a", "f", "t", "e", "r", " ", "p", "r",
        "o", "p", "e", "r", "t", "y", " ", "v", "a", "l", "u", "e", " ", "i",
        "n", " ", "J", "S", "O", "N", " ", "a", "t", " ", "p", "o", "s", "i",
        "t", "i", "o", "n", " ">>
    [] template = "ExpectedCommaOrRBrack" ->
      \* Expected ',' or ']' after array element in JSON at position
      <<"E", "x", "p", "e", "c", "t", "e", "d", " ", "'", ",", "'", " ", "o",
        "r", " ", "'", "]", "'", " ", "a", "f", "t", "e", "r", " ", "a", "r",
        "r", "a", "y", " ", "e", "l", "e", "m", "e", "n", "t", " ", "i", "n",
        " ", "J", "S", "O", "N", " ", "a", "t", " ", "p", "o", "s", "i", "t",
        "i", "o", "n", " ">>
    [] template = "UnexpectedNonWhiteSpaceCharacter" ->
      \* Unexpected non-whitespace character after JSON at position
      <<"U", "n", "e", "x", "p", "e", "c", "t", "e", "d", " ", "n", "o", "n",
        "-", "w", "h", "i", "t", "e", "s", "p", "a", "c", "e", " ", "c", "h",
        "a", "r", "a", "c", "t", "e", "r", " ", "a", "f", "t", "e", "r", " ",
        "J", "S", "O", "N", " ", "a", "t", " ", "p", "o", "s", "i", "t", "i",
        "o", "n", " ">>
    [] template = "UnexpectedTokenNumber" ->
      \* Unexpected number in JSON at position
      <<"U", "n", "e", "x", "p", "e", "c", "t", "e", "d", " ", "n", "u", "m",
        "b", "e", "r", " ", "i", "n", " ", "J", "S", "O", "N", " ", "a", "t",
        " ", "p", "o", "s", "i", "t", "i", "o", "n", " ">>
    [] template = "UnexpectedTokenString" ->
      \* Unexpected string in JSON at position
      <<"U", "n", "e", "x", "p", "e", "c", "t", "e", "d", " ", "s", "t", "r",
        "i", "n", "g", " ", "i", "n", " ", "J", "S", "O", "N", " ", "a", "t",
        " ", "p", "o", "s", "i", "t", "i", "o", "n", " ">>

\* the texts JSON.parse reports as a whole when they are given in place of JSON
SpecialString ==
  {<<"[", "o", "b", "j", "e", "c", "t", " ", "O", "b", "j", "e", "c", "t", "]">>,
   <<"u", "n", "d", "e", "f", "i", "n", "e", "d">>,
   <<"I", "n", "f", "i", "n", "i", "t", "y">>,
   <<"N", "a", "N">>}

\* the message for a character, or the end of the text, that is not expected
\* at the 0-based position pos: a text of 21 characters or more is quoted
\* by the 10 characters on each side of the position
UnexpectedMessage(s, pos) ==
  LET quote == <<"\"">>
      dots == <<".", ".", ".">>
      context ==
        IF Len(s) < 21 THEN quote \o s \o quote
        ELSE IF pos < 10 THEN quote \o SubSeq(s, 1, pos + 10) \o quote \o dots
        ELSE IF Len(s) - pos <= 10
          THEN dots \o quote \o SubSeq(s, pos - 9, Len(s)) \o quote
        ELSE dots \o quote \o SubSeq(s, pos - 9, pos + 10) \o quote \o dots
      notValid ==
        <<" ", "i", "s", " ", "n", "o", "t", " ", "v", "a", "l", "i", "d",
          " ", "J", "S", "O", "N">>
  IN IF pos >= Len(s) THEN
       <<"U", "n", "e", "x", "p", "e", "c", "t", "e", "d", " ", "e", "n", "d",
         " ", "o", "f", " ", "J", "S", "O", "N", " ", "i", "n", "p", "u", "t">>
     ELSE IF s[pos + 1] \in Digit \cup {"-"}
       THEN PositionMessage("UnexpectedTokenNumber") \o NumberToString(pos)
     ELSE IF s[pos + 1] = "\""
       THEN PositionMessage("UnexpectedTokenString") \o NumberToString(pos)
     ELSE IF s \in SpecialString THEN quote \o s \o quote \o notValid
     ELSE <<"U", "n", "e", "x", "p", "e", "c", "t", "e", "d", " ", "t", "o",
            "k", "e", "n", " ", "'">>
          \o <<s[pos + 1], "'", ",", " ">> \o context \o notValid

\* the message of the SyntaxError JSON.parse(s) throws
JSONParseMessage(s) ==
  LET Message(failure) ==
        IF failure.template = "Unexpected"
        THEN UnexpectedMessage(s, failure.pos)
        ELSE PositionMessage(failure.template) \o NumberToString(failure.pos)
  IN Message(JSONParse(s))

\* ------------------------------------------------------ JavaScript values
\* A value that may be undefined, a number or a string.
Undefined == [t |-> "undefined", n |-> 0, s |-> <<>>]
Num(n) == [t |-> "number", n |-> n, s |-> <<>>]
Str(s) == [t |-> "string", n |-> 0, s |-> s]

\* JavaScript truthiness of such a value
Truthy(v) ==
  \/ v.t = "number" /\ v.n # 0
  \/ v.t = "string" /\ v.s # <<>>

\* v === n for a number literal n
IsNumber(v, n) == v.t = "number" /\ v.n = n

\* v === s for a string literal s
IsString(v, s) == v.t = "string" /\ v.s = s

\* ------------------------------------------------------------ identifiers
\* the string  gemini-2.5-flash
GEMINI_FLASH ==
  <<"g", "e", "m", "i", "n", "i", "-", "2", ".", "5", "-", "f", "l", "a",
    "s", "h">>

\* the string  gemini-2.0-pro-exp-02-05
GEMINI_PRO ==
  <<"g", "e", "m", "i", "n", "i", "-", "2", ".", "0", "-", "p", "r", "o",
    "-", "e", "x", "p", "-", "0", "2", "-", "0", "5">>

\* the string  gemini-2.5-flash-image
GEMINI_FLASH_IMAGE ==
  <<"g", "e", "m", "i", "n", "i", "-", "2", ".", "5", "-", "f", "l", "a",
    "s", "h", "-", "i", "m", "a", "g", "e">>

\* the string  imagen-3.0-generate-002
IMAGEN_MODEL ==
  <<"i", "m", "a", "g", "e", "n", "-", "3", ".", "0", "-", "g", "e", "n",
    "e", "r", "a", "t", "e", "-", "0", "0", "2">>

\* the string  gemini-2.5-flash-preview-tts
TTS_MODEL_ID ==
  <<"g", "e", "m", "i", "n", "i", "-", "2", ".", "5", "-", "f", "l", "a",
    "s", "h", "-", "p", "r", "e", "v", "i", "e", "w", "-", "t", "t", "s">>

\* the model identifiers callers pass to setGameModel
TextModelIds == {GEMINI_FLASH, GEMINI_PRO}
ImageModelIds == {GEMINI_FLASH_IMAGE, IMAGEN_MODEL}

\* --------------------------------------------------------------- errors
\* A thrown value: name tells where it was created, status/code/message are
\* the properties withRetry inspects.
MakeError(name, status, code, message) ==
  [name |-> name, status |-> status, code |-> code, message |-> message]

NoError == MakeError("none", Undefined, Undefined, Undefined)

\* the message of ensureAiInitialized's error, two sentences in Vietnamese;
\* each letter outside ASCII is written by its code point
NotInitializedMessage ==
  <<"A", "P", "I", " ", "K", "e", "y", " ", "c", "h", "U+01B0", "a", " ",
    "U+0111", "U+01B0", "U+1EE3", "c", " ", "t", "h", "i", "U+1EBF", "t",
    " ", "l", "U+1EAD", "p", ".", " ", "V", "u", "i", " ", "l", "U+00F2",
    "n", "g", " ", "n", "h", "U+1EAD", "p", " ", "A", "P", "I", " ", "K",
    "e", "y", " ", "c", "U+1EE7", "a", " ", "b", "U+1EA1", "n", ".">>

\* the string  No response from AI
NoResponseMessage ==
  <<"N", "o", " ", "r", "e", "s", "p", "o", "n", "s", "e", " ", "f", "r",
    "o", "m", " ", "A", "I">>

\* the string  No infographic data generated
NoInfographicMessage ==
  <<"N", "o", " ", "i", "n", "f", "o", "g", "r", "a", "p", "h", "i", "c",
    " ", "d", "a", "t", "a", " ", "g", "e", "n", "e", "r", "a", "t", "e",
    "d">>

NotInitializedError ==
  MakeError("NotInitialized", Undefined, Undefined, Str(NotInitializedMessage))
NoResponseError(message) ==
  MakeError("NoResponse", Undefined, Undefined, Str(message))
\* the SyntaxError JSON.parse throws for a text that is no JSON
JsonSyntaxError(text) ==
  MakeError("SyntaxError", Undefined, Undefined, Str(JSONParseMessage(text)))

\* the string  429
Marker429 ==
  <<"4", "2", "9">>

\* the string  RESOURCE_EXHAUSTED
MarkerResourceExhausted ==
  <<"R", "E", "S", "O", "U", "R", "C", "E", "_", "E", "X", "H", "A", "U",
    "S", "T", "E", "D">>

\* the string  Quota
MarkerQuota ==
  <<"Q", "u", "o", "t", "a">>

\* withRetry's isRateLimit: the retryable signals of a thrown value whose
\* message, when present, is a string
\* isRateLimit looking for 503 in code as well and without the test of the
\* status string
isRateLimitByNumbers(error) ==
  \/ IsNumber(error.status, 429)
  \/ IsNumber(error.code, 429)
  \/ /\ Truthy(error.message)
     /\ \/ Includes(error.message.s, Marker429)
        \/ Includes(error.message.s, MarkerResourceExhausted)
        \/ Includes(error.message.s, MarkerQuota)
  \/ IsNumber(error.status, 503)
  \/ IsNumber(error.code, 503)

isRateLimit(error) ==
  \/ IsNumber(error.status, 429)
  \/ IsNumber(error.code, 429)
  \/ IsString(error.status, MarkerResourceExhausted)
  \/ /\ Truthy(error.message)
     /\ \/ Includes(error.message.s, Marker429)
        \/ Includes(error.message.s, MarkerResourceExhausted)
        \/ Includes(error.message.s, MarkerQuota)
  \/ IsNumber(error.status, 503)

RECURSIVE Pow2(_)
Pow2(n) == IF n <= 0 THEN 1 ELSE 2 * Pow2(n - 1)

\* BackoffDelay growing linearly instead of doubling
BackoffDelayLinear(retries, jitter) ==
  INITIAL_BACKOFF_MS * (MAX_RETRIES - retries + 1) + jitter

\* the delay before the retry taken with `retries` retries left
BackoffDelay(retries, jitter) ==
  INITIAL_BACKOFF_MS * Pow2(MAX_RETRIES - retries) + jitter

\* ------------------------------------------------------ remote responses
\* Response texts the remote service may return.
\* the string  {"options":["a","b","c"]}
TurnText ==
  <<"{", "\"", "o", "p", "t", "i", "o", "n", "s", "\"", ":", "[", "\"",
    "a", "\"", ",", "\"", "b", "\"", ",", "\"", "c", "\"", "]", "}">>

\* the string  {"options":["a","b"]}
TwoOptionsText ==
  <<"{", "\"", "o", "p", "t", "i", "o", "n", "s", "\"", ":", "[", "\"",
    "a", "\"", ",", "\"", "b", "\"", "]", "}">>

\* the string  {"options":["a","b","c","d"]}
FourOptionsText ==
  <<"{", "\"", "o", "p", "t", "i", "o", "n", "s", "\"", ":", "[", "\"",
    "a", "\"", ",", "\"", "b", "\"", ",", "\"", "c", "\"", ",", "\"", "d",
    "\"", "]", "}">>

\* the string  {"title":"x"}
NoOptionsText ==
  <<"{", "\"", "t", "i", "t", "l", "e", "\"", ":", "\"", "x", "\"", "}">>

\* the string  {"q":{"t":"x"},"options":["a","b","c"]}
NestedText ==
  <<"{", "\"", "q", "\"", ":", "{", "\"", "t", "\"", ":", "\"", "x", "\"",
    "}", ",", "\"", "o", "p", "t", "i", "o", "n", "s", "\"", ":", "[",
    "\"", "a", "\"", ",", "\"", "b", "\"", ",", "\"", "c", "\"", "]", "}">>

\* the string  (bq)(bq)(bq)json(nl){"options":["a","b","c"]}(nl)(bq)(bq)(bq)
FencedText ==
  <<BQ, BQ, BQ, "j", "s", "o", "n", "\n", "{", "\"", "o", "p", "t", "i",
    "o", "n", "s", "\"", ":", "[", "\"", "a", "\"", ",", "\"", "b", "\"",
    ",", "\"", "c", "\"", "]", "}", "\n", BQ, BQ, BQ>>

\* the string  Sure: {"options":["a","b","c"]} Enjoy!
ProseText ==
  <<"S", "u", "r", "e", ":", " ", "{", "\"", "o", "p", "t", "i", "o", "n",
    "s", "\"", ":", "[", "\"", "a", "\"", ",", "\"", "b", "\"", ",", "\"",
    "c", "\"", "]", "}", " ", "E", "n", "j", "o", "y", "!">>

\* the string  {x} {"options":["a","b","c"]}
ProseBraceText ==
  <<"{", "x", "}", " ", "{", "\"", "o", "p", "t", "i", "o", "n", "s",
    "\"", ":", "[", "\"", "a", "\"", ",", "\"", "b", "\"", ",", "\"", "c",
    "\"", "]", "}">>

\* the string  Sorry
ApologyText ==
  <<"S", "o", "r", "r", "y">>

\* the string  ["a","b"]
ArrayText ==
  <<"[", "\"", "a", "\"", ",", "\"", "b", "\"", "]">>

\* the string  Quota exceeded
QuotaText ==
  <<"Q", "u", "o", "t", "a", " ", "e", "x", "c", "e", "e", "d", "e", "d">>

\* the string  429
NumberText ==
  <<"4", "2", "9">>

\* the string  null
NullText ==
  <<"n", "u", "l", "l">>

\* the string  }{
ReversedText ==
  <<"}", "{">>

\* the string    
BlankText ==
  <<" ", " ">>

\* the string  {oops}
BadObjectText ==
  <<"{", "o", "o", "p", "s", "}">>

Texts ==
  {TurnText,
   TwoOptionsText,
   FourOptionsText,
   NoOptionsText,
   NestedText,
   FencedText,
   ProseText,
   ProseBraceText,
   ApologyText,
   QuotaText,
   ArrayText,
   NumberText,
   NullText,
   ReversedText,
   BlankText,
   BadObjectText,
   \* a turn with an exponent and an escaped key:
   \* {"hp":1e1,"\u006fptions":["a","b","c"]}
   <<"{", "\"", "h", "p", "\"", ":", "1", "e", "1", ",", "\"", "\\", "u", "0",
     "0", "6", "f", "p", "t", "i", "o", "n", "s", "\"", ":", "[", "\"", "a",
     "\"", ",", "\"", "b", "\"", ",", "\"", "c", "\"", "]", "}">>,
   \* a number between a form feed and a no-break space
   <<"\f", "7", "U+00A0">>}

\* response.text: undefined, empty, or one of the texts
TextValues == {Undefined, Str(<<>>)} \cup {Str(t) : t \in Texts}

\* A part of a candidate's content: inlineData present or not, and its data.
TextPart == [inlineData |-> FALSE, data |-> Undefined]
InlinePart(data) == [inlineData |-> TRUE, data |-> data]

\* the string  QUJD
Base64Payload ==
  <<"Q", "U", "J", "D">>

\* A response: text, candidates (each the sequence of its content's parts;
\* a candidate without content or parts is the empty sequence) and
\* generatedImages (each the imageBytes of its image).
MakeResponse(text, candidates, generatedImages) ==
  [text |-> text, candidates |-> candidates, generatedImages |-> generatedImages]

TextResponses == {MakeResponse(t, <<>>, <<>>) : t \in TextValues}

SpeechResponses ==
  {MakeResponse(Undefined, cs, <<>>) :
     cs \in {<<>>,
             <<<<>>>>,
             <<<<TextPart>>>>,
             <<<<TextPart, InlinePart(Str(Base64Payload))>>>>,
             <<<<InlinePart(Undefined)>>>>,
             <<<<InlinePart(Str(<<>>))>>>>,
             <<<<InlinePart(Str(Base64Payload))>>>>,
             <<<<>>, <<InlinePart(Str(Base64Payload))>>>>}}

ImagenResponses ==
  {MakeResponse(Undefined, <<>>, gi) :
     gi \in {<<>>, <<Undefined>>, <<Str(<<>>)>>, <<Str(Base64Payload)>>,
             <<Str(Base64Payload), Str(<<"Q", "Q">>)>>}}

ContentImageResponses ==
  {MakeResponse(Undefined, cs, <<>>) :
     cs \in {<<>>,
             <<<<>>>>,
             <<<<TextPart>>>>,
             <<<<TextPart, InlinePart(Str(Base64Payload))>>>>,
             <<<<InlinePart(Undefined)>>>>,
             <<<<InlinePart(Str(Base64Payload))>>>>,
             <<<<InlinePart(Str(Base64Payload)), InlinePart(Str(<<"Q", "Q">>))>>>>,
             <<<<>>, <<InlinePart(Str(Base64Payload))>>>>}}

\* Errors the remote call may throw.
\* the string  Too Many Requests
TooManyRequestsMessage ==
  <<"T", "o", "o", " ", "M", "a", "n", "y", " ", "R", "e", "q", "u", "e",
    "s", "t", "s">>

\* the string  Service Unavailable
UnavailableMessage ==
  <<"S", "e", "r", "v", "i", "c", "e", " ", "U", "n", "a", "v", "a", "i",
    "l", "a", "b", "l", "e">>

\* the string  Bad Request
BadRequestMessage ==
  <<"B", "a", "d", " ", "R", "e", "q", "u", "e", "s", "t">>

Error429 == MakeError("ApiError", Num(429), Undefined, Str(TooManyRequestsMessage))
Error503 == MakeError("ApiError", Num(503), Undefined, Str(UnavailableMessage))
Error400 == MakeError("ApiError", Num(400), Undefined, Str(BadRequestMessage))
RemoteErrors == {Error429, Error503, Error400}

\* Math.random() * 1000, at the two ends of its range
Jitters == {0, JITTER_RANGE - 1}

\* ------------------------------------------------------------------ state
VARIABLES
  ai,                   \* the client handle: "null" or "client"
  currentModelId,       \* text model identifier
  currentImageModelId,  \* image model identifier
  calls,                \* per caller: the generation call it has issued
  sanitizerInput,       \* a text handed to cleanJson on its own
  sanitizerOutput,      \* what cleanJson made of it
  hasApiKey,            \* App: a key was entered (the setup screen is shown)
  gameState,            \* App: the game state
  isLoading             \* App: a game is being started

vars ==
  <<ai, currentModelId, currentImageModelId, calls, sanitizerInput,
    sanitizerOutput, hasApiKey, gameState, isLoading>>

moduleVars == <<ai, currentModelId, currentImageModelId>>
sanitizerVars == <<sanitizerInput, sanitizerOutput>>
appVars == <<hasApiKey, gameState, isLoading>>

Callers == 1..MaxCalls

TextOps == {"startGame", "nextTurn", "generateInfographicData"}
Ops == TextOps \cup {"generateSpeech", "generateImage"}

\* ------------------------------------------------- results of a call
NoJson == [kind |-> "none", len |-> 0, optKind |-> "absent", optLen |-> 0]

\* the value JSON.parse returned, as the caller can observe it
JsonValue(p) ==
  [t |-> "json",
   json |-> [kind |-> p.kind, len |-> p.len, optKind |-> p.optKind,
             optLen |-> p.optLen],
   uri |-> <<>>]
NullValue == [t |-> "null", json |-> NoJson, uri |-> <<>>]
AudioValue == [t |-> "audio", json |-> NoJson, uri |-> <<>>]
UriValue(uri) == [t |-> "uri", json |-> NoJson, uri |-> uri]

NoResponse == MakeResponse(Undefined, <<>>, <<>>)

\* how a call settled: the promise resolved with value or rejected with error
Return(value) == [kind |-> "return", value |-> value, error |-> NoError]
Throw(error) == [kind |-> "throw", value |-> NullValue, error |-> error]
Pending == [kind |-> "none", value |-> NullValue, error |-> NoError]

\* A call: op, where it stands (pc), the client it captured, withRetry's
\* `retries`, generateImage's isImagen, the requests fn has sent, the errors
\* fn has thrown, the delays waited, the response fn resolved with, the
\* error withRetry threw, and the call's result.
IdleCall ==
  [op |-> "none", pc |-> "idle", client |-> "null", retries |-> 0,
   isImagen |-> FALSE, requests |-> <<>>, failures |-> <<>>, delays |-> <<>>,
   response |-> NoResponse, thrown |-> NoError, result |-> Pending]

\* cleanJson on its own: the text and the pieces it was put together from;
\* the output once cleanJson has run
NoSanitizerInput == [text |-> <<>>, plain |-> <<>>]
NoSanitizerOutput == [done |-> FALSE, text |-> <<>>]

\* App's first game state; hp stands for INITIAL_HP, history for its length,
\* inventory and quest for where their values come from
InitialGameState ==
  [status |-> "SETUP", hp |-> "INITIAL_HP", score |-> 0, level |-> 1,
   inventory |-> "empty", quest |-> "null", history |-> 0,
   currentTurn |-> NullValue]

\* the game state handleStartGame sets from the turn startGame returned
PlayingGameState(turnData) ==
  [status |-> "PLAYING", hp |-> "INITIAL_HP", score |-> 0, level |-> 1,
   inventory |-> "turnData.newItems", quest |-> "turnData.questUpdate",
   history |-> 1, currentTurn |-> turnData]

Init ==
  /\ ai = "null"
  /\ currentModelId = GEMINI_FLASH
  /\ currentImageModelId = GEMINI_FLASH_IMAGE
  /\ calls = [c \in Callers |-> IdleCall]
  /\ sanitizerInput = NoSanitizerInput
  /\ sanitizerOutput = NoSanitizerOutput
  /\ hasApiKey = FALSE
  /\ gameState = InitialGameState
  /\ isLoading = FALSE

\* ------------------------------------------------ credential and models
\* setApiKey(apiKey)
setApiKey ==
  /\ ai' = "client"
  /\ UNCHANGED <<currentModelId, currentImageModelId, calls, sanitizerVars,
               appVars>>

\* setGameModel assigning the image model without the test of imageModelId
setGameModelUnconditional(textModelId, imageModelId) ==
  /\ currentModelId' = textModelId
  /\ currentImageModelId' = imageModelId.s
  /\ UNCHANGED <<ai, calls, sanitizerVars, appVars>>

\* setGameModel(textModelId, imageModelId); imageModelId may be Undefined
setGameModel(textModelId, imageModelId) ==
  /\ currentModelId' = textModelId
  /\ currentImageModelId' =
       IF Truthy(imageModelId) THEN imageModelId.s ELSE currentImageModelId
  /\ UNCHANGED <<ai, calls, sanitizerVars, appVars>>

\* ensureAiInitialized that never throws
ensureAiInitializedAlways(handle) == TRUE

\* ensureAiInitialized(): does it return the client (TRUE) or throw (FALSE)
ensureAiInitialized(handle) == handle # "null"

\* ------------------------------------------------------------ withRetry
\* the request fn sends when it is invoked while the module's model ids are
\* textModelId and imageModelId
RequestWith(op, isImagen, textModelId, imageModelId) ==
  IF op \in TextOps
    THEN [method |-> "generateContent", model |-> textModelId]
  ELSE IF op = "generateSpeech"
    THEN [method |-> "generateContent", model |-> TTS_MODEL_ID]
  ELSE IF isImagen
    THEN [method |-> "generateImages", model |-> imageModelId]
  ELSE [method |-> "generateContent", model |-> imageModelId]

\* the request fn sends when it is invoked now for a call
RequestOf(op, isImagen) ==
  RequestWith(op, isImagen, currentModelId, currentImageModelId)

\* ShouldRetry with the test `retries >= 0`: one retry too many
ShouldRetryOneMore(error, retries) == isRateLimit(error) /\ retries >= 0

\* ShouldRetry without the retryable test: any error is retried
ShouldRetryAnyError(error, retries) == retries > 0

\* ShouldRetry with the test `retries > 1`: one retry too few
ShouldRetryOneLess(error, retries) == isRateLimit(error) /\ retries > 1

\* withRetry's test for waiting and trying again
ShouldRetry(error, retries) == isRateLimit(error) /\ retries > 0

\* -------------------------------------------- what each call does after
\* withRetry settled
\* startGame, nextTurn, generateInfographicData: the response arrived
TextCompletion(response, noTextMessage) ==
  IF ~Truthy(response.text) THEN Throw(NoResponseError(noTextMessage))
  ELSE LET parsed == JSONParse(cleanJson(response.text.s))
       IN IF parsed.ok THEN Return(JsonValue(parsed))
          ELSE Throw(JsonSyntaxError(cleanJson(response.text.s)))

\* startGame, nextTurn, generateInfographicData: catch (error) { throw error }
TextCatch(error) == Throw(error)

\* FirstInlineData taking the first inline payload of any part
AnyInlineData(response) ==
  IF response.candidates = <<>> THEN Undefined
  ELSE LET parts == response.candidates[1]
           inline == {i \in 1..Len(parts) : parts[i].inlineData}
       IN IF inline = {} THEN Undefined
          ELSE parts[CHOOSE i \in inline : \A j \in inline : i <= j].data

\* response.candidates?.[0]?.content?.parts?.[0]?.inlineData?.data
FirstInlineData(response) ==
  IF response.candidates = <<>> THEN Undefined
  ELSE IF response.candidates[1] = <<>> THEN Undefined
  ELSE IF ~response.candidates[1][1].inlineData THEN Undefined
  ELSE response.candidates[1][1].data

\* generateSpeech after its response: does it go on to await decodeAudioData,
\* that is, does the first part carry a payload and did atob and the
\* AudioContext constructor return (started) rather than throw
SpeechAwaitsDecoding(response, started) ==
  Truthy(FirstInlineData(response)) /\ started

\* generateSpeech: the result for a response; decoded tells whether atob,
\* the AudioContext and decodeAudioData produced a buffer or threw
SpeechCompletion(response, decoded) ==
  IF ~Truthy(FirstInlineData(response)) THEN Return(NullValue)
  ELSE IF decoded THEN Return(AudioValue)
  ELSE Return(NullValue)

\* generateSpeech's catch block rethrowing, as the text calls do
SpeechCatchRethrow(error) == Throw(error)

\* generateSpeech: catch (error) { return null }
SpeechCatch(error) == Return(NullValue)

\* template literal interpolation of a value: a string as it is, a number
\* by its digits, undefined by its name
Interpolate(v) ==
  IF v.t = "string" THEN v.s
  ELSE IF v.t = "number" THEN NumberToString(v.n)
  ELSE <<"u", "n", "d", "e", "f", "i", "n", "e", "d">>

\* the string  data:image/jpeg;base64,
JpegUriPrefix ==
  <<"d", "a", "t", "a", ":", "i", "m", "a", "g", "e", "/", "j", "p", "e",
    "g", ";", "b", "a", "s", "e", "6", "4", ",">>

\* the string  data:image/png;base64,
PngUriPrefix ==
  <<"d", "a", "t", "a", ":", "i", "m", "a", "g", "e", "/", "p", "n", "g",
    ";", "b", "a", "s", "e", "6", "4", ",">>

\* generateImage, image-synthesis path: generatedImages?.[0]?.image?.imageBytes
ImagenCompletion(response) ==
  LET base64 == IF response.generatedImages = <<>> THEN Undefined
                ELSE response.generatedImages[1]
  IN IF Truthy(base64) THEN Return(UriValue(JpegUriPrefix \o base64.s))
     ELSE Return(NullValue)

\* ContentImageCompletion taking the last part with inlineData
ContentImageCompletionLast(response) ==
  LET parts == IF response.candidates = <<>> THEN <<>>
               ELSE response.candidates[1]
      inline == {i \in 1..Len(parts) : parts[i].inlineData}
  IN IF inline = {} THEN Return(NullValue)
     ELSE LET last == CHOOSE i \in inline : \A j \in inline : i >= j
          IN Return(UriValue(PngUriPrefix \o Interpolate(parts[last].data)))

\* generateImage, multimodal path: the first part with inlineData
ContentImageCompletion(response) ==
  LET parts == IF response.candidates = <<>> THEN <<>>
               ELSE response.candidates[1]
      inline == {i \in 1..Len(parts) : parts[i].inlineData}
  IN IF inline = {} THEN Return(NullValue)
     ELSE LET first == CHOOSE i \in inline : \A j \in inline : i <= j
          IN Return(UriValue(PngUriPrefix \o Interpolate(parts[first].data)))

\* generateImage's catch block rethrowing, as the text calls do
ImageCatchRethrow(error) == Throw(error)

\* generateImage: catch (error) { return null }
ImageCatch(error) == Return(NullValue)

\* the result of a call whose withRetry resolved with response
Completion(call, response, decoded) ==
  IF call.op = "generateInfographicData"
    THEN TextCompletion(response, NoInfographicMessage)
  ELSE IF call.op \in TextOps THEN TextCompletion(response, NoResponseMessage)
  ELSE IF call.op = "generateSpeech" THEN SpeechCompletion(response, decoded)
  ELSE IF call.isImagen THEN ImagenCompletion(response)
  ELSE ContentImageCompletion(response)

\* the result of a call whose withRetry threw error
Caught(call, error) ==
  IF call.op \in TextOps THEN TextCatch(error)
  ELSE IF call.op = "generateSpeech" THEN SpeechCatch(error)
  ELSE ImageCatch(error)

\* the responses the remote service may give to a call's request
ResponsesFor(call) ==
  IF call.op \in TextOps THEN TextResponses
  ELSE IF call.op = "generateSpeech" THEN SpeechResponses
  ELSE IF call.isImagen THEN ImagenResponses
  ELSE ContentImageResponses

\* the string  imagen
ImagenPrefix ==
  <<"i", "m", "a", "g", "e", "n">>

\* -------------------------------------------------- the generation calls
\* A call after its synchronous start: ensureAiInitialized on the handle,
\* generateImage's isImagen, and withRetry's first invocation of fn, with
\* the module's model ids being textModelId and imageModelId.
IssuedCall(op, handle, textModelId, imageModelId) ==
  IF ~ensureAiInitialized(handle)
  THEN [IdleCall EXCEPT !.op = op, !.pc = "done",
                        !.result = Throw(NotInitializedError)]
  ELSE LET isImagen == /\ op = "generateImage"
                       /\ StartsWith(imageModelId, ImagenPrefix)
       IN [IdleCall EXCEPT !.op = op, !.pc = "attempt", !.client = handle,
                           !.retries = MAX_RETRIES,
                           !.isImagen = isImagen,
                           !.requests =
                             <<RequestWith(op, isImagen, textModelId,
                                           imageModelId)>>]

\* a generation call issued by caller c
BeginCall(c, op) ==
  /\ calls[c].pc = "idle"
  /\ calls' =
       [calls EXCEPT ![c] =
          IssuedCall(op, ai, currentModelId, currentImageModelId)]
  /\ UNCHANGED <<moduleVars, sanitizerVars, appVars>>

startGame(c) == BeginCall(c, "startGame")
nextTurn(c) == BeginCall(c, "nextTurn")
generateInfographicData(c) == BeginCall(c, "generateInfographicData")
generateSpeech(c) == BeginCall(c, "generateSpeech")
generateImage(c) == BeginCall(c, "generateImage")

\* fn rejects with error: withRetry's catch block, and when it rethrows, the
\* catch block of the call
AttemptFails(c, error, jitter) ==
  LET call == calls[c]
  IN /\ call.pc = "attempt"
     /\ calls' =
          [calls EXCEPT ![c] =
             IF ShouldRetry(error, call.retries)
             THEN [call EXCEPT !.pc = "wait",
                               !.failures = Append(@, error),
                               !.delays =
                                 Append(@, BackoffDelay(call.retries, jitter))]
             ELSE [call EXCEPT !.pc = "done",
                               !.failures = Append(@, error),
                               !.thrown = error,
                               !.result = Caught(call, error)]]
     /\ UNCHANGED <<moduleVars, sanitizerVars, appVars>>

\* WaitElapses with `retries` kept in one counter shared by the calls in
\* progress instead of in withRetry's own parameter
WaitElapsesShared(c) ==
  LET call == calls[c]
  IN /\ call.pc = "wait"
     /\ calls' =
          [d \in Callers |->
             IF d = c
             THEN [call EXCEPT !.pc = "attempt",
                               !.retries = @ - 1,
                               !.requests =
                                 Append(@, RequestOf(call.op, call.isImagen))]
             ELSE IF calls[d].pc \in {"attempt", "wait"}
             THEN [calls[d] EXCEPT !.retries = @ - 1]
             ELSE calls[d]]
     /\ UNCHANGED <<moduleVars, sanitizerVars, appVars>>

\* WaitElapses calling withRetry(fn) without `retries - 1`: the retry starts
\* over with the whole budget, as a fresh first attempt
WaitElapsesRestart(c) ==
  LET call == calls[c]
  IN /\ call.pc = "wait"
     /\ calls' =
          [calls EXCEPT ![c] =
             [call EXCEPT !.pc = "attempt",
                          !.retries = MAX_RETRIES,
                          !.requests = <<RequestOf(call.op, call.isImagen)>>,
                          !.failures = <<>>,
                          !.delays = <<>>]]
     /\ UNCHANGED <<moduleVars, sanitizerVars, appVars>>

\* the wait is over: withRetry(fn, retries - 1) invokes fn again
WaitElapses(c) ==
  LET call == calls[c]
  IN /\ call.pc = "wait"
     /\ calls' =
          [calls EXCEPT ![c] =
             [call EXCEPT !.pc = "attempt",
                          !.retries = @ - 1,
                          !.requests =
                            Append(@, RequestOf(call.op, call.isImagen))]]
     /\ UNCHANGED <<moduleVars, sanitizerVars, appVars>>

\* AttemptSucceeds with the check and the parsing of the response done inside
\* the unit of work, so that withRetry sees their errors
AttemptSucceedsInsideRetry(c, response, decoded) ==
  LET call == calls[c]
      result == Completion(call, response, decoded)
  IN /\ call.pc = "attempt"
     /\ response \in ResponsesFor(call)
     /\ calls' =
          [calls EXCEPT ![c] =
             IF result.kind = "throw" /\ ShouldRetry(result.error, call.retries)
             THEN [call EXCEPT !.pc = "wait",
                               !.failures = Append(@, result.error),
                               !.delays = Append(@, BackoffDelay(call.retries, 0))]
             ELSE IF /\ call.op = "generateSpeech"
                     /\ SpeechAwaitsDecoding(response, decoded)
             THEN [call EXCEPT !.pc = "decode", !.response = response]
             ELSE [call EXCEPT !.pc = "done",
                               !.response = response,
                               !.result = result]]
     /\ UNCHANGED <<moduleVars, sanitizerVars, appVars>>

\* fn resolves with response: withRetry returns it and the call runs on to
\* its end, or, for generateSpeech with a payload, to the point where it
\* awaits decodeAudioData; decoded tells whether atob and the AudioContext
\* constructor returned
AttemptSucceeds(c, response, decoded) ==
  LET call == calls[c]
  IN /\ call.pc = "attempt"
     /\ response \in ResponsesFor(call)
     /\ calls' =
          [calls EXCEPT ![c] =
             IF /\ call.op = "generateSpeech"
                /\ SpeechAwaitsDecoding(response, decoded)
             THEN [call EXCEPT !.pc = "decode", !.response = response]
             ELSE [call EXCEPT !.pc = "done",
                               !.response = response,
                               !.result = Completion(call, response, decoded)]]
     /\ UNCHANGED <<moduleVars, sanitizerVars, appVars>>

\* the promise of decodeAudioData settles for a generateSpeech call that
\* awaits it: with a buffer (decoded), which the call returns, or with the
\* error of the fallback, which the call's catch block turns into null
decodeAudioData(c, decoded) ==
  LET call == calls[c]
  IN /\ call.pc = "decode"
     /\ calls' =
          [calls EXCEPT ![c] =
             [call EXCEPT !.pc = "done",
                          !.result = SpeechCompletion(call.response, decoded)]]
     /\ UNCHANGED <<moduleVars, sanitizerVars, appVars>>

\* the caller takes the settled result of its call
Settle(c) ==
  /\ calls[c].pc = "done"
  /\ calls' = [calls EXCEPT ![c] = IdleCall]
  /\ UNCHANGED <<moduleVars, sanitizerVars, appVars>>

\* cleanJson applied to a text on its own
Sanitize ==
  /\ ~sanitizerOutput.done
  /\ sanitizerOutput' =
       [done |-> TRUE, text |-> cleanJson(sanitizerInput.text)]
  /\ UNCHANGED <<moduleVars, calls, sanitizerInput, appVars>>

\* --------------------------------------------------------- specifications
AllResponses ==
  TextResponses \cup SpeechResponses \cup ImagenResponses
    \cup ContentImageResponses

ImageModelArgs == {Undefined, Str(<<>>)} \cup {Str(m) : m \in ImageModelIds}

\* no caller holds a call
Quiet == \A c \in Callers : calls[c].pc = "idle"

\* Spec takes the calls one at a time: a call is issued, and the credential
\* and the models are set, only while no other call is held.
Next ==
  \/ Quiet /\ setApiKey
  \/ \E t \in TextModelIds, i \in ImageModelArgs : Quiet /\ setGameModel(t, i)
  \/ \E c \in Callers : Quiet /\ startGame(c)
  \/ \E c \in Callers : Quiet /\ nextTurn(c)
  \/ \E c \in Callers : Quiet /\ generateInfographicData(c)
  \/ \E c \in Callers : Quiet /\ generateSpeech(c)
  \/ \E c \in Callers : Quiet /\ generateImage(c)
  \/ \E c \in Callers, e \in RemoteErrors, j \in Jitters : AttemptFails(c, e, j)
  \/ \E c \in Callers : WaitElapses(c)
  \/ \E c \in Callers, r \in AllResponses, d \in BOOLEAN :
       AttemptSucceeds(c, r, d)
  \/ \E c \in Callers, d \in BOOLEAN : decodeAudioData(c, d)
  \/ \E c \in Callers : Settle(c)

Spec == Init /\ [][Next]_vars

\* ------------------------------------- model switches during a call
\* SpecSwitch lets setGameModel run at any moment, also while a call is in
\* flight or waiting in backoff; the calls themselves are taken one at a
\* time, with one jitter value.
SwitchJitters == {0}

NextSwitch ==
  \/ Quiet /\ setApiKey
  \/ \E t \in TextModelIds, i \in ImageModelArgs : setGameModel(t, i)
  \/ \E c \in Callers : Quiet /\ startGame(c)
  \/ \E c \in Callers : Quiet /\ nextTurn(c)
  \/ \E c \in Callers : Quiet /\ generateInfographicData(c)
  \/ \E c \in Callers : Quiet /\ generateSpeech(c)
  \/ \E c \in Callers : Quiet /\ generateImage(c)
  \/ \E c \in Callers, e \in RemoteErrors, j \in SwitchJitters :
       AttemptFails(c, e, j)
  \/ \E c \in Callers : WaitElapses(c)
  \/ \E c \in Callers, r \in AllResponses, d \in BOOLEAN :
       AttemptSucceeds(c, r, d)
  \/ \E c \in Callers, d \in BOOLEAN : decodeAudioData(c, d)
  \/ \E c \in Callers : Settle(c)

SpecSwitch == Init /\ [][NextSwitch]_vars

\* ------------------------------------------------- calls in parallel
\* SpecConc lets every caller hold a generateSpeech or a generateImage call
\* at the same time (the image and the speech of a turn are generated in
\* parallel), with a retryable and a non-retryable error and one jitter
\* value.  The image model is set while no call is held, so that image calls
\* of both families are issued.  Text calls in parallel are in SpecFair.
ConcErrors == {Error429, Error400}

\* A response that makes each kind of call succeed: a text for the text
\* operations, one inline part for generateSpeech (the audio) and for
\* generateImage through generateContent (the image), and one generated
\* image for generateImage through generateImages.
ConcResponses ==
  {MakeResponse(Str(TurnText), <<>>, <<>>),
   MakeResponse(Undefined, <<<<InlinePart(Str(Base64Payload))>>>>, <<>>),
   MakeResponse(Undefined, <<>>, <<Str(Base64Payload)>>)}

NextConc ==
  \/ setApiKey
  \/ \E i \in ImageModelIds : Quiet /\ setGameModel(GEMINI_FLASH, Str(i))
  \/ \E c \in Callers : generateSpeech(c)
  \/ \E c \in Callers : generateImage(c)
  \/ \E c \in Callers, e \in ConcErrors, j \in SwitchJitters :
       AttemptFails(c, e, j)
  \/ \E c \in Callers : WaitElapses(c)
  \/ \E c \in Callers, r \in ConcResponses, d \in BOOLEAN :
       AttemptSucceeds(c, r, d)
  \/ \E c \in Callers, d \in BOOLEAN : decodeAudioData(c, d)
  \/ \E c \in Callers : Settle(c)

SpecConc == Init /\ [][NextConc]_vars

\* ------------------------------------------------ calls that make progress
\* the attempt in flight of caller c completes: fn rejects or resolves
AttemptSettles(c) ==
  \/ \E e \in ConcErrors, j \in SwitchJitters : AttemptFails(c, e, j)
  \/ \E r \in ConcResponses, d \in BOOLEAN : AttemptSucceeds(c, r, d)

\* SpecFair runs startGame calls in parallel; every attempt in flight
\* eventually completes and every wait eventually elapses (the remote call
\* settles, the timer fires).
NextFair ==
  \/ setApiKey
  \/ \E c \in Callers : startGame(c)
  \/ \E c \in Callers : AttemptSettles(c)
  \/ \E c \in Callers : WaitElapses(c)
  \/ \E c \in Callers : Settle(c)

SpecFair ==
  /\ Init
  /\ [][NextFair]_vars
  /\ \A c \in Callers : WF_vars(AttemptSettles(c)) /\ WF_vars(WaitElapses(c))

\* ------------------------------------------- the errors withRetry sorts
\* SpecRetry throws errors of many shapes at withRetry: status, code and
\* message each absent, of the expected type or of another type, with and
\* without the markers.  A call meets at most one error from ErrorShapes
\* that is not in ConcErrors, so that the logs of the failures stay few.
ErrorShapes ==
  LET \* the string  got 429
      Got429Message ==
        <<"g", "o", "t", " ", "4", "2", "9">>
      \* the string  quota reached
      LowerQuotaMessage ==
        <<"q", "u", "o", "t", "a", " ", "r", "e", "a", "c", "h", "e", "d">>
      StatusShapes ==
        {Undefined, Num(429), Num(503), Num(400), Str(MarkerResourceExhausted),
         Str(Marker429)}
      CodeShapes == {Undefined, Num(429), Num(503), Str(MarkerResourceExhausted)}
      MessageShapes ==
        {Undefined, Str(<<>>), Str(BadRequestMessage), Str(TooManyRequestsMessage),
         Str(Got429Message), Str(MarkerResourceExhausted), Str(QuotaText),
         Str(LowerQuotaMessage)}
  IN {MakeError("ApiError", s, c, m) :
        s \in StatusShapes, c \in CodeShapes, m \in MessageShapes}

\* the errors the remote call may throw at a call in SpecRetry
ErrorsFor(call) ==
  IF \A i \in 1..Len(call.failures) : call.failures[i] \in ConcErrors
  THEN ErrorShapes
  ELSE ConcErrors

NextRetry ==
  \/ Quiet /\ setApiKey
  \/ \E c \in Callers : Quiet /\ startGame(c)
  \/ \E c \in Callers, e \in ErrorShapes, j \in SwitchJitters :
       e \in ErrorsFor(calls[c]) /\ AttemptFails(c, e, j)
  \/ \E c \in Callers : WaitElapses(c)
  \/ \E c \in Callers, r \in ConcResponses, d \in BOOLEAN :
       AttemptSucceeds(c, r, d)
  \/ \E c \in Callers : Settle(c)

SpecRetry == Init /\ [][NextRetry]_vars

\* ------------------------------------------------------------- the App
\* a rejected key: status 401 and the message  401 Unauthorized
Error401 ==
  MakeError("ApiError", Num(401), Undefined,
            Str(<<"4", "0", "1", " ", "U", "n", "a", "u", "t", "h", "o", "r",
                  "i", "z", "e", "d">>))

\* the remote errors and the responses a startGame call of the App may meet
AppErrors == {Error429, Error400, Error401}

AppResponses ==
  {MakeResponse(t, <<>>, <<>>) :
     t \in {Undefined, Str(TurnText), Str(NullText), Str(NumberText),
            Str(ApologyText)}}

\* handleStartGame's catch block: is the key taken for rejected, the message
\* holding 401 or 403
IsAuthError(error) ==
  /\ error.message.t = "string"
  /\ \/ Includes(error.message.s, <<"4", "0", "1">>)
     \/ Includes(error.message.s, <<"4", "0", "3">>)

\* App.handleApiKeySubmit (and the mount effect finding a stored key): the
\* key screen is shown while no key was entered
handleApiKeySubmit ==
  /\ ~hasApiKey
  /\ ai' = "client"
  /\ hasApiKey' = TRUE
  /\ UNCHANGED <<currentModelId, currentImageModelId, calls, sanitizerVars,
                 gameState, isLoading>>

\* SetupScreen.handleSubmit without the test of isLoading
handleSubmitAlways(c, modelId) ==
  /\ hasApiKey
  /\ gameState.status = "SETUP"
  /\ calls[c].pc = "idle"
  /\ isLoading' = TRUE
  /\ currentModelId' = modelId
  /\ calls' =
       [calls EXCEPT ![c] =
          IssuedCall("startGame", ai, modelId, currentImageModelId)]
  /\ UNCHANGED <<ai, currentImageModelId, sanitizerVars, hasApiKey,
                 gameState>>

\* The form of the setup screen is submitted with modelId selected:
\* SetupScreen.handleSubmit and, when it calls onStart, App.handleStartGame
\* up to its await: setIsLoading(true), setGameModel(modelId) and the
\* synchronous start of startGame, whose promise caller c holds.  The setup
\* screen is rendered while a key was entered and the status is SETUP.
handleSubmit(c, modelId) ==
  /\ hasApiKey
  /\ gameState.status = "SETUP"
  /\ calls[c].pc = "idle"
  /\ IF isLoading
     THEN UNCHANGED vars
     ELSE /\ isLoading' = TRUE
          /\ currentModelId' = modelId
          /\ calls' =
               [calls EXCEPT ![c] =
                  IssuedCall("startGame", ai, modelId, currentImageModelId)]
          /\ UNCHANGED <<ai, currentImageModelId, sanitizerVars, hasApiKey,
                         gameState>>

\* handleStartGame's state update skipping the catch block's way out: the
\* game is set to PLAYING whatever startGame did
handleStartGameResumesAlwaysPlaying(c) ==
  LET call == calls[c]
  IN /\ call.pc = "done"
     /\ call.op = "startGame"
     /\ calls' = [calls EXCEPT ![c] = IdleCall]
     /\ gameState' = PlayingGameState(call.result.value)
     /\ isLoading' = FALSE
     /\ UNCHANGED <<moduleVars, sanitizerVars, hasApiKey>>

\* App.handleStartGame after its await, once startGame has settled: the rest
\* of the try block (reading turnData.newItems throws a TypeError when
\* turnData is null), the catch block and the finally block.
handleStartGameResumes(c) ==
  LET call == calls[c]
      turnData == call.result.value
      stateSet == call.result.kind = "return" /\ turnData.json.kind # "null"
  IN /\ call.pc = "done"
     /\ call.op = "startGame"
     /\ calls' = [calls EXCEPT ![c] = IdleCall]
     /\ gameState' =
          IF stateSet THEN PlayingGameState(turnData) ELSE gameState
     /\ hasApiKey' =
          IF call.result.kind = "throw" /\ IsAuthError(call.result.error)
          THEN FALSE
          ELSE hasApiKey
     /\ isLoading' = FALSE
     /\ UNCHANGED <<moduleVars, sanitizerVars>>

\* GameScreen, which App gives setGameState, ends the game it shows while the
\* status is PLAYING (SETUP -> PLAYING -> FINISHED)
gameScreenFinishes ==
  /\ hasApiKey
  /\ gameState.status = "PLAYING"
  /\ gameState' = [gameState EXCEPT !.status = "FINISHED"]
  /\ UNCHANGED <<moduleVars, calls, sanitizerVars, hasApiKey, isLoading>>

\* App.handleRestart, which EndScreen, shown while the status is FINISHED,
\* is given as onRestart: the game state is set to its initial value
handleRestart ==
  /\ hasApiKey
  /\ gameState.status = "FINISHED"
  /\ gameState' = InitialGameState
  /\ UNCHANGED <<moduleVars, calls, sanitizerVars, hasApiKey, isLoading>>

\* the attempt in flight of the App's startGame call completes
AppAttemptSettles(c) ==
  \/ \E e \in AppErrors, j \in Jitters : AttemptFails(c, e, j)
  \/ \E r \in AppResponses : AttemptSucceeds(c, r, TRUE)

NextApp ==
  \/ handleApiKeySubmit
  \/ \E c \in Callers, m \in TextModelIds : handleSubmit(c, m)
  \/ \E c \in Callers : AppAttemptSettles(c)
  \/ \E c \in Callers : WaitElapses(c)
  \/ \E c \in Callers : handleStartGameResumes(c)
  \/ gameScreenFinishes
  \/ handleRestart

\* SpecApp: the App from its mount through the games of a session, each
\* started, ended by the game screen and restarted; every attempt
\* eventually completes, every wait elapses and the continuation of
\* handleStartGame runs once its promise has settled.
SpecApp ==
  /\ Init
  /\ [][NextApp]_vars
  /\ \A c \in Callers :
       /\ WF_vars(AppAttemptSettles(c))
       /\ WF_vars(WaitElapses(c))
       /\ WF_vars(handleStartGameResumes(c))

\* ---------------------------------------------- cleanJson on its own
\* Texts made of a JSON object, optionally inside a fenced block, optionally
\* with prose before and after.  Each input carries the text and `plain`,
\* the same pieces put together without the fence markers.
\* the string  Sure: 
ProseBefore ==
  <<"S", "u", "r", "e", ":", " ">>

\* the string   Enjoy!
ProseAfter ==
  <<" ", "E", "n", "j", "o", "y", "!">>

Piece(text, plain) == [text |-> text, plain |-> plain]
Same(text) == Piece(text, text)

SanitizerInputs ==
  LET \* the string  {x} 
      ProseBeforeWithBraces ==
        <<"{", "x", "}", " ">>
      \* the string  a } b(nl)
      ProseBeforeClosing ==
        <<"a", " ", "}", " ", "b", "\n">>
      \* the string   :} 
      ProseAfterClosing ==
        <<" ", ":", "}", " ">>
      \* the string  {}
      EmptyObjectText ==
        <<"{", "}">>
      Prefixes ==
        {Same(<<>>), Same(ProseBefore), Same(ProseBeforeWithBraces),
         Same(ProseBeforeClosing)}
      Openers ==
        {Same(<<>>), Piece(FenceJson \o <<"\n">>, <<"\n">>),
         Piece(Fence \o <<"\n">>, <<"\n">>), Piece(FenceJson, <<>>)}
      Objects ==
        {Same(TurnText), Same(NestedText), Same(NoOptionsText),
         Same(EmptyObjectText)}
      Closers == {Same(<<>>), Piece(<<"\n">> \o Fence, <<"\n">>), Piece(Fence, <<>>)}
      Suffixes ==
        {Same(<<>>), Same(ProseAfter), Same(ProseAfterClosing), Same(<<"\n">>),
         Same(<<"U+00A0", "\f">>)}
  IN {[text |-> a.text \o b.text \o o.text \o d.text \o e.text,
       plain |-> a.plain \o b.plain \o o.plain \o d.plain \o e.plain] :
        a \in Prefixes, b \in Openers, o \in Objects, d \in Closers,
        e \in Suffixes}

InitClean ==
  /\ ai = "null"
  /\ currentModelId = GEMINI_FLASH
  /\ currentImageModelId = GEMINI_FLASH_IMAGE
  /\ calls = [c \in Callers |-> IdleCall]
  /\ sanitizerInput \in SanitizerInputs
  /\ sanitizerOutput = NoSanitizerOutput
  /\ hasApiKey = FALSE
  /\ gameState = InitialGameState
  /\ isLoading = FALSE

NextClean == Sanitize

SpecClean == InitClean /\ [][NextClean]_vars

\* ================================================================ claims
RECURSIVE Sum(_)
Sum(seq) == IF seq = <<>> THEN 0 ELSE seq[1] + Sum(Tail(seq))

\* the simulated remote failures that carry a retryable signal (429, 503)
\* and the one that carries none (400)
RetryableFailures == {Error429, Error503}
NonRetryableFailures == {Error400}

\* the last attempt of a finished call failed: withRetry threw
EndedInFailure(call) ==
  /\ call.pc = "done"
  /\ call.requests # <<>>
  /\ Len(call.failures) = Len(call.requests)

\* the last attempt of a finished call succeeded: withRetry returned
EndedInSuccess(call) ==
  /\ call.pc = "done"
  /\ call.requests # <<>>
  /\ Len(call.failures) = Len(call.requests) - 1

\* C1: one call of withRetry invokes the unit of work exactly k times, k
\* the index of the first attempt that succeeds or fails non-retryably,
\* capped at 4: every attempt before the last one failed retryably, a
\* finished call stopped at its first success or non-retryable failure or
\* at the 4th attempt, and there is never a 5th invocation.
C1_AttemptsWithinBudget ==
  \A c \in Callers :
    LET call == calls[c]
        n == Len(call.requests)
    IN /\ n <= 4
       /\ Len(call.failures) <= n
       /\ \A i \in 1..Len(call.failures) :
            i < n => call.failures[i] \in RetryableFailures
       /\ call.pc = "attempt" => Len(call.failures) = n - 1
       /\ call.pc = "wait" =>
            /\ Len(call.failures) = n
            /\ n < 4
            /\ call.failures[n] \in RetryableFailures
       /\ (call.pc = "done" /\ n > 0) =>
            \/ EndedInSuccess(call)
            \/ EndedInFailure(call) /\ call.failures[n] \in NonRetryableFailures
            \/ EndedInFailure(call) /\ n = 4

\* C1 witness: a call that used its whole budget, four attempts all failing
C1_Witness ==
  \E c \in Callers :
    /\ EndedInFailure(calls[c])
    /\ Len(calls[c].requests) = 4
    /\ calls[c].failures[4] \in RetryableFailures

\* C2: when withRetry gives up (non-retryable error, or budget exhausted)
\* the error of the final attempt is the very error it throws, no wait
\* follows that attempt, and a non-retryable error is always the final
\* attempt of its call; the text calls hand the same error to the caller.
C2_ErrorPropagatesUnchanged ==
  \A c \in Callers :
    LET call == calls[c]
        n == Len(call.requests)
    IN /\ \A i \in 1..Len(call.failures) :
            call.failures[i] \in NonRetryableFailures =>
              /\ i = n
              /\ call.pc = "done"
              /\ Len(call.delays) = i - 1
       /\ EndedInFailure(call) =>
            /\ call.thrown = call.failures[n]
            /\ Len(call.delays) = n - 1
            /\ call.op \in TextOps => call.result = Throw(call.failures[n])
       /\ ~EndedInFailure(call) => call.thrown = NoError

\* C2 witness: a text call whose second attempt failed with status 400
C2_Witness ==
  \E c \in Callers :
    /\ calls[c].op = "startGame"
    /\ calls[c].pc = "done"
    /\ calls[c].failures = <<Error429, Error400>>
    /\ calls[c].result = Throw(Error400)
    /\ Len(calls[c].delays) = 1

\* the base delays 2000, 4000, 8000
ExpectedBase == <<2000, 4000, 8000>>

\* C3: the wait before the n-th retry is base + jitter with base 2000, 4000,
\* 8000 for n = 1, 2, 3 and jitter in [0, 1000); there is one wait per retry.
C3_BackoffDoubles ==
  \A c \in Callers :
    LET call == calls[c]
    IN /\ Len(call.delays) <= 3
       /\ \A n \in 1..Len(call.delays) :
            /\ call.delays[n] >= ExpectedBase[n]
            /\ call.delays[n] < ExpectedBase[n] + 1000
       /\ call.pc = "attempt" => Len(call.delays) = Len(call.requests) - 1
       /\ call.pc = "wait" => Len(call.delays) = Len(call.requests)

\* C3 witness: three waits, with the jitter at both ends of its range
C3_Witness ==
  \E c \in Callers : calls[c].delays = <<2999, 4000, 8999>>

\* C4: when every attempt of a call fails retryably, exactly three waits
\* occur and their sum is at least 14000 and below 17000.
C4_TotalWaitBounds ==
  \A c \in Callers :
    LET call == calls[c]
    IN (/\ EndedInFailure(call)
        /\ \A i \in 1..Len(call.failures) :
             call.failures[i] \in RetryableFailures)
       => /\ Len(call.delays) = 3
          /\ Sum(call.delays) >= 14000
          /\ Sum(call.delays) < 17000

\* C4 witness: every attempt failed retryably and every jitter was maximal
C4_Witness ==
  \E c \in Callers :
    /\ EndedInFailure(calls[c])
    /\ \A i \in 1..Len(calls[c].failures) :
         calls[c].failures[i] \in RetryableFailures
    /\ Sum(calls[c].delays) = 16997

\* C5: a generation call begun with no credential fails with NotInitialized
\* and sends no request; a call begun with a credential never fails with
\* NotInitialized; and once the credential is set it stays set.
C5_NotInitializedBeforeCredential ==
  [][/\ ai # "null" => ai' # "null"
     /\ \A c \in Callers :
          (calls[c].pc = "idle" /\ calls'[c].pc # "idle") =>
            /\ calls'[c].op \in Ops
            /\ IF ai = "null"
               THEN /\ calls'[c].pc = "done"
                    /\ calls'[c].result = Throw(NotInitializedError)
                    /\ calls'[c].requests = <<>>
               ELSE /\ calls'[c].result.error.name # "NotInitialized"
                    /\ Len(calls'[c].requests) = 1
     /\ \A c \in Callers :
          (/\ calls'[c].result.error.name = "NotInitialized"
           /\ calls[c].result.error.name # "NotInitialized")
          => ai = "null" /\ calls[c].pc = "idle"]_vars

\* C5 witness: a generateImage call that failed with NotInitialized and sent
\* nothing
C5_Witness ==
  \E c \in Callers :
    /\ calls[c].op = "generateImage"
    /\ calls[c].pc = "done"
    /\ calls[c].result = Throw(NotInitializedError)
    /\ calls[c].requests = <<>>

\* C6 as stated: generateImage never throws, credential set or not: every
\* finished generateImage call returned a data URI or null.
C6_ImageNeverThrows ==
  \A c \in Callers :
    (calls[c].op = "generateImage" /\ calls[c].pc = "done") =>
      /\ calls[c].result.kind = "return"
      /\ calls[c].result.value.t \in {"uri", "null"}

\* C6 amended: a generateImage call begun with a credential set never throws
\* and returns a data URI or null, whatever the remote outcome; begun
\* without a credential it throws the NotInitialized error.
C6_ImageNeverThrowsOnceInitialized ==
  \A c \in Callers :
    (calls[c].op = "generateImage" /\ calls[c].pc = "done") =>
      IF calls[c].client # "null"
      THEN /\ calls[c].result.kind = "return"
           /\ calls[c].result.value.t \in {"uri", "null"}
           /\ calls[c].result.value.t = "uri" => EndedInSuccess(calls[c])
      ELSE calls[c].result = Throw(NotInitializedError)

\* C6 witness: a generateImage call on the image-synthesis path whose retry
\* budget was exhausted returned null
C6_Witness ==
  \E c \in Callers :
    /\ calls[c].op = "generateImage"
    /\ calls[c].isImagen
    /\ EndedInFailure(calls[c])
    /\ Len(calls[c].requests) = 4
    /\ calls[c].result = Return(NullValue)

\* C7: a response whose parsed "options" array has a length other than 3 is
\* never returned by startGame or nextTurn: a returned Turn whose options
\* are an array has exactly 3 of them.
C7_TurnHasThreeOptions ==
  \A c \in Callers :
    (/\ calls[c].op \in {"startGame", "nextTurn"}
     /\ calls[c].pc = "done"
     /\ calls[c].result.kind = "return"
     /\ calls[c].result.value.json.optKind = "array")
    => calls[c].result.value.json.optLen = 3

\* a text without any brace
NoBraces(text) == \A i \in 1..Len(text) : text[i] \notin {"{", "}"}

\* C8: startGame, nextTurn and generateInfographicData fail, and return
\* nothing, when the sanitized response text holds no braces or does not
\* parse as an object.
C8_MalformedNeverReturned ==
  \A c \in Callers :
    (/\ calls[c].op \in TextOps
     /\ EndedInSuccess(calls[c])
     /\ Truthy(calls[c].response.text)
     /\ \/ NoBraces(cleanJson(calls[c].response.text.s))
        \/ JSONParse(cleanJson(calls[c].response.text.s)).kind # "object")
    => calls[c].result.kind = "throw"

\* the part of a text from its first opening brace to its last closing brace
BraceSpan(text) ==
  LET opening == {i \in 1..Len(text) : text[i] = "{"}
      closing == {i \in 1..Len(text) : text[i] = "}"}
  IN SubSeq(text, CHOOSE i \in opening : \A j \in opening : i <= j,
                  CHOOSE i \in closing : \A j \in closing : i >= j)

\* C9: for a JSON object wrapped in code fences and/or surrounded by prose,
\* cleanJson returns exactly the part of the fence-stripped text from its
\* first opening brace to its last closing brace.
C9_SanitizerExtractsBraceSpan ==
  sanitizerOutput.done =>
    sanitizerOutput.text = BraceSpan(sanitizerInput.plain)

\* C9 witness: a fenced object with prose on both sides, cut down to the
\* object
C9_Witness ==
  /\ sanitizerOutput.done
  /\ sanitizerInput.text =
       ProseBefore \o FenceJson \o <<"\n">> \o NestedText \o <<"\n">>
         \o Fence \o ProseAfter
  /\ sanitizerOutput.text = NestedText

\* a response without an inline audio payload in the first part of the
\* first candidate
NoAudioInFirstPart(response) ==
  \/ Len(response.candidates) = 0
  \/ Len(response.candidates[1]) = 0
  \/ ~response.candidates[1][1].inlineData
  \/ response.candidates[1][1].data \in {Undefined, Str(<<>>)}

\* C10: with a credential set, generateSpeech returns null, and does not
\* throw, when the response has no inline audio payload in the first part
\* of the first candidate.
C10_SpeechNullWithoutAudio ==
  \A c \in Callers :
    (/\ calls[c].op = "generateSpeech"
     /\ EndedInSuccess(calls[c])
     /\ NoAudioInFirstPart(calls[c].response))
    => calls[c].result = Return(NullValue)

\* C10 witness: the audio is only in a later part, and null is returned
C10_Witness ==
  \E c \in Callers :
    /\ calls[c].op = "generateSpeech"
    /\ EndedInSuccess(calls[c])
    /\ calls[c].response.candidates =
         <<<<TextPart, InlinePart(Str(Base64Payload))>>>>
    /\ calls[c].result = Return(NullValue)

\* the parts of the first candidate of a response
FirstCandidateParts(response) ==
  IF response.candidates = <<>> THEN <<>> ELSE response.candidates[1]

\* the positions of the parts that carry inline data
InlinePositions(parts) == {i \in 1..Len(parts) : parts[i].inlineData}

\* C11: with a credential set, a generateImage call whose remote call
\* succeeded returns null, and does not throw, when there are no
\* generatedImages[0] bytes (image-synthesis path) or no part with inline
\* data (multimodal path); otherwise it returns the data URI made of the
\* path's prefix and the first such payload.
C11_ImageNullWithoutPayload ==
  \A c \in Callers :
    LET call == calls[c]
        images == call.response.generatedImages
        parts == FirstCandidateParts(call.response)
        inline == InlinePositions(parts)
    IN (call.op = "generateImage" /\ EndedInSuccess(call)) =>
         /\ call.client # "null"
         /\ call.result.kind = "return"
         /\ call.isImagen =>
              IF images = <<>> \/ images[1] \in {Undefined, Str(<<>>)}
              THEN call.result.value = NullValue
              ELSE call.result.value = UriValue(JpegUriPrefix \o images[1].s)
         /\ ~call.isImagen =>
              IF inline = {}
              THEN call.result.value = NullValue
              ELSE \E i \in inline :
                     /\ \A j \in inline : i <= j
                     /\ call.result.value.t = "uri"
                     /\ StartsWith(call.result.value.uri, PngUriPrefix)
                     /\ parts[i].data.t = "string" =>
                          call.result.value.uri = PngUriPrefix \o parts[i].data.s

\* C11 witness: the multimodal path answered with a text part only and null
\* was returned
C11_Witness ==
  \E c \in Callers :
    /\ calls[c].op = "generateImage"
    /\ ~calls[c].isImagen
    /\ EndedInSuccess(calls[c])
    /\ calls[c].response.candidates = <<<<TextPart>>>>
    /\ calls[c].result = Return(NullValue)

\* C12: with a credential set, when withRetry gives up on a remote failure
\* (non-retryable, or retryable with the budget used up), generateSpeech and
\* generateImage return null, and startGame, nextTurn and
\* generateInfographicData throw that same error.
C12_PresentationFailuresDegrade ==
  \A c \in Callers :
    LET call == calls[c]
        last == call.failures[Len(call.failures)]
    IN EndedInFailure(call) =>
         /\ call.client # "null"
         /\ \/ last \in NonRetryableFailures
            \/ last \in RetryableFailures /\ Len(call.requests) = 4
         /\ call.op \in {"generateSpeech", "generateImage"} =>
              call.result = Return(NullValue)
         /\ call.op \in TextOps => call.result = Throw(last)

\* C12 witness: a generateSpeech call whose four attempts all failed
\* retryably returned null
C12_Witness ==
  \E c \in Callers :
    /\ calls[c].op = "generateSpeech"
    /\ EndedInFailure(calls[c])
    /\ calls[c].failures = <<Error503, Error429, Error503, Error429>>
    /\ calls[c].result = Return(NullValue)

\* C13: a model switch takes effect only for calls issued after it returns:
\* every attempt of a call, the first try and all retries, sends the model
\* identifier its first attempt sent, the one current when the call was
\* issued, even if setGameModel runs while the call waits or is in flight.
C13_AttemptsKeepIssuedModel ==
  \A c \in Callers :
    \A i \in 1..Len(calls[c].requests) :
      calls[c].requests[i].model = calls[c].requests[1].model

\* a call between its issue and its completion
InProgress(call) == call.pc \in {"attempt", "wait"}

\* C14: within one withRetry call the attempts are strictly sequential: at
\* most one attempt is in flight, and attempt n+1 starts only after attempts
\* 1..n have all failed and a backoff wait has been taken for each; calls in
\* progress at the same time share no retry counter: a step of one call
\* leaves every other call as it was, and each call counts down its own
\* budget of 4 attempts.
C14_AttemptsSequential ==
  [][\A c \in Callers :
       LET before == calls[c]
           after == calls'[c]
       IN /\ Len(after.requests) - Len(after.failures) \in {0, 1}
          /\ after.pc = "attempt" <=>
               /\ InProgress(after)
               /\ Len(after.requests) - Len(after.failures) = 1
          /\ (Len(after.requests) > Len(before.requests) /\ before.pc # "idle")
               => /\ Len(after.requests) = Len(before.requests) + 1
                  /\ before.pc = "wait"
                  /\ Len(before.failures) = Len(before.requests)
                  /\ Len(before.delays) = Len(before.requests)
          /\ InProgress(after) =>
               after.retries = MAX_RETRIES - (Len(after.requests) - 1)
          /\ Len(after.requests) <= MAX_RETRIES + 1
          /\ after # before => \A d \in Callers \ {c} : calls'[d] = calls[d]
    ]_vars

\* C14 witness: two calls in progress at once, a generateImage call of the
\* imagen family and a generateSpeech call, both at their 4th attempt
C14_Witness ==
  \E c, d \in Callers :
    /\ c # d
    /\ calls[c].op = "generateImage"
    /\ calls[c].isImagen
    /\ calls[d].op = "generateSpeech"
    /\ calls[c].pc = "attempt"
    /\ calls[d].pc = "attempt"
    /\ Len(calls[c].requests) = 4
    /\ Len(calls[d].requests) = 4

\* the errors of a malformed response: no text, or a text that does not parse
MalformedNames == {"NoResponse", "SyntaxError"}

\* a response whose text is missing, empty or unparseable
Malformed(response) ==
  \/ ~Truthy(response.text)
  \/ ~JSONParse(cleanJson(response.text.s)).ok

\* C15: a malformed response is never retried: once the remote call of
\* startGame, nextTurn or generateInfographicData has returned a response
\* with empty or unparseable text, the call fails at once: withRetry never
\* sees that error, no wait follows the response, and the finished call
\* sends no further request, even when the error message holds a
\* retryable marker.
C15_MalformedNeverRetried ==
  [][\A c \in Callers :
       LET before == calls[c]
           after == calls'[c]
       IN after.op \in TextOps =>
            /\ \A i \in 1..Len(after.failures) :
                 after.failures[i].name \notin MalformedNames
            /\ (EndedInSuccess(after) /\ Malformed(after.response)) =>
                 /\ after.result.kind = "throw"
                 /\ after.result.error.name \in MalformedNames
                 /\ after.thrown = NoError
                 /\ Len(after.delays) = Len(after.requests) - 1
            /\ (before.pc = "done" /\ before.result.kind = "throw") =>
                 after \in {before, IdleCall}
    ]_vars

\* C15 witness: the first response of startGame was the text Quota exceeded;
\* the call threw a SyntaxError whose message holds the marker Quota, after
\* one request and no wait
C15_Witness ==
  \E c \in Callers :
    /\ calls[c].op = "startGame"
    /\ EndedInSuccess(calls[c])
    /\ calls[c].response.text = Str(QuotaText)
    /\ calls[c].result.kind = "throw"
    /\ calls[c].result.error.name = "SyntaxError"
    /\ isRateLimit(calls[c].result.error)
    /\ Len(calls[c].requests) = 1
    /\ calls[c].delays = <<>>

\* C16 as stated: setGameModel(textModelId, imageModelId) always replaces the
\* text model id, replaces the image model id whenever imageModelId is
\* provided, leaves it unchanged when imageModelId is omitted, and never
\* changes the client handle.
C16_SetGameModelFrame ==
  [][\A t \in TextModelIds, i \in ImageModelArgs :
       setGameModel(t, i) =>
         /\ currentModelId' = t
         /\ i # Undefined => currentImageModelId' = i.s
         /\ i = Undefined => currentImageModelId' = currentImageModelId
         /\ ai' = ai
    ]_vars

\* C16 amended: setGameModel always replaces the text model id, replaces the
\* image model id when imageModelId is a non-empty string, leaves it
\* unchanged when imageModelId is omitted or the empty string, and never
\* changes the client handle.
C16_SetGameModelFrameNonEmpty ==
  [][\A t \in TextModelIds, i \in ImageModelArgs :
       setGameModel(t, i) =>
         /\ currentModelId' = t
         /\ (i # Undefined /\ i.s # <<>>) => currentImageModelId' = i.s
         /\ (i = Undefined \/ i.s = <<>>) =>
              currentImageModelId' = currentImageModelId
         /\ ai' = ai
    ]_vars

\* C16 witness: both model ids were replaced and the client is still there
C16_Witness ==
  /\ ai = "client"
  /\ currentModelId = GEMINI_PRO
  /\ currentImageModelId = IMAGEN_MODEL

\* the retryable signals: 429 as the number in status or in code, a textual
\* marker of rate limiting or quota exhaustion (RESOURCE_EXHAUSTED as the
\* status or inside the message, Quota or 429 inside the message), or 503
\* as the number in status
CarriesRetrySignal(error) ==
  \/ Num(429) \in {error.status, error.code}
  \/ error.status = Str(MarkerResourceExhausted)
  \/ /\ error.message.t = "string"
     /\ \E marker \in {MarkerResourceExhausted, MarkerQuota, Marker429} :
          Includes(error.message.s, marker)
  \/ error.status = Num(503)

\* C17: withRetry treats a failure as retryable if and only if it carries
\* one of the signals: a failed attempt with a signal and budget left (fewer
\* than 4 attempts made) leads to a wait, and the wait to another attempt;
\* a failed attempt without a signal, or with the budget used up, ends the
\* call with that error and without a wait.
C17_RetryableIffSignal ==
  [][\A c \in Callers :
       LET before == calls[c]
           after == calls'[c]
           error == after.failures[Len(after.failures)]
       IN /\ (/\ before.pc = "attempt"
              /\ Len(after.failures) = Len(before.failures) + 1) =>
               IF CarriesRetrySignal(error) /\ Len(before.requests) < 4
               THEN /\ after.pc = "wait"
                    /\ Len(after.delays) = Len(before.delays) + 1
                    /\ after.requests = before.requests
               ELSE /\ after.pc = "done"
                    /\ after.thrown = error
                    /\ after.delays = before.delays
                    /\ after.requests = before.requests
          /\ (before.pc = "wait" /\ after # before) =>
               /\ after.pc = "attempt"
               /\ Len(after.requests) = Len(before.requests) + 1
               /\ after.failures = before.failures
    ]_vars

\* C17 witness: an error whose only signal is the marker Quota in its message
\* led to a wait and then to a second attempt, which ended the call with a
\* status 400
C17_Witness ==
  \E c \in Callers :
    /\ calls[c].pc = "done"
    /\ Len(calls[c].requests) = 2
    /\ calls[c].failures =
         <<MakeError("ApiError", Undefined, Undefined, Str(QuotaText)),
           Error400>>
    /\ Len(calls[c].delays) = 1
    /\ calls[c].thrown = Error400

\* C18: every issued withRetry call eventually completes, returning or
\* throwing, provided each attempt and each wait eventually completes: a
\* call in progress leads to that call being done.
C18_CallsComplete ==
  \A c \in Callers : InProgress(calls[c]) ~> (calls[c].pc = "done")

\* C18 witness: a call that was made to wait three times completed with a
\* response at its 4th attempt
C18_Witness ==
  \E c \in Callers :
    /\ EndedInSuccess(calls[c])
    /\ Len(calls[c].requests) = 4
    /\ Len(calls[c].delays) = 3
    /\ calls[c].result.kind = "return"

\* C19: in generateImage the request shape always matches the model id sent
\* with it, under any interleaving with setGameModel: for the first attempt
\* and for every retry, a generateImages request carries a model id that
\* starts with imagen, and a generateContent request one that does not.
C19_ImageRequestShapeMatchesModel ==
  \A c \in Callers :
    calls[c].op = "generateImage" =>
      \A i \in 1..Len(calls[c].requests) :
        LET request == calls[c].requests[i]
        IN request.method = "generateImages"
             <=> StartsWith(request.model, ImagenPrefix)

\* C20: in the App, the status leaves SETUP for PLAYING only in the step
\* that takes the value a startGame call returned, which becomes the current
\* turn; when startGame failed the game state is left as it was; while the
\* status is SETUP the game state changes in no other way; a startGame call
\* is issued only while isLoading is false and no other call is held, and
\* sets isLoading; and isLoading, once true, is eventually reset to false.
C20_StartGameFlow ==
  /\ [][/\ (gameState.status = "SETUP" /\ gameState'.status = "PLAYING") =>
             \E c \in Callers :
               /\ calls[c].op = "startGame"
               /\ calls[c].pc = "done"
               /\ calls[c].result.kind = "return"
               /\ calls'[c].pc = "idle"
               /\ gameState'.currentTurn = calls[c].result.value
               /\ ~isLoading'
        /\ (gameState.status = "SETUP" /\ gameState' # gameState) =>
             gameState = InitialGameState /\ gameState'.status = "PLAYING"
        /\ \A c \in Callers :
             (/\ calls[c].pc = "done"
              /\ calls[c].result.kind = "throw"
              /\ calls'[c].pc = "idle") =>
               /\ gameState' = gameState
               /\ gameState.status = "SETUP"
               /\ ~isLoading'
        /\ \A c \in Callers :
             (calls[c].pc = "idle" /\ calls'[c].pc # "idle") =>
               /\ ~isLoading
               /\ isLoading'
               /\ calls'[c].op = "startGame"
               /\ \A d \in Callers \ {c} : calls[d].pc = "idle"
        /\ isLoading' <=> \E c \in Callers : calls'[c].pc # "idle"
       ]_vars
  /\ (isLoading ~> ~isLoading)

\* C20 witness: a game was started with the second model after a startGame
\* call returned its turn, and isLoading is false again
C20_Witness ==
  /\ gameState.status = "PLAYING"
  /\ gameState.currentTurn.json.kind = "object"
  /\ gameState.history = 1
  /\ currentModelId = GEMINI_PRO
  /\ ~isLoading

====
